---- MODULE Spec2Model ----
(***************************************************************************)
(* Model of the TimeData node servers src/timedata.py (local-zone variant) *)
(* and src/timedatapgc.py (configured-zone variant).                       *)
(*                                                                         *)
(* Instants are whole seconds since 1970-01-01T00:00:00Z.  A calendar date *)
(* is its day number since 1970-01-01.  An aware datetime is a pair        *)
(* <<t, tz>>; a naive datetime.now() is the process zone's wall clock.     *)
(***************************************************************************)
EXTENDS Integers, Sequences, FiniteSets, TLC

VARIABLES
    variant,      \* which source file runs: "timedata" or "timedatapgc"
    processtz,    \* zone of the process (time.localtime, naive datetime.now)
    now,          \* the wall clock, seconds since the epoch
    ticks,        \* number of clock advances so far (bounds the run)
    started,      \* the host has called start()
    latitude,     \* self.latitude
    longitude,    \* self.longitude
    localtz,      \* self.localtz            (timedatapgc.py only)
    hemisphere,   \* self.hemisphere
    today,        \* self.today              (timedatapgc.py only)
    utcdiff,      \* self.utcdiff            (timedatapgc.py only)
    isdst,        \* self.isdst              (timedatapgc.py only)
    drivers,      \* controller drivers GV0..GV16
    sundrivers,   \* drivers of node 'sundata': ST, GV0..GV6
    notices,      \* notices shown by the host
    op,           \* the handler that ran last
    fault,        \* TRUE when the last handler ended in an uncaught exception
    written,      \* the drivers the last handler set
    sunreq,       \* the dates the last handler passed to getsunrise_sunset
    reads,        \* the instants of the clock reads of the last refresh
    snapshots,    \* clock snapshots published at the current instant
    repeated,     \* the last handler refreshed the clock fields for an
                  \* instant and configuration already in snapshots
    args,         \* inputs of a function under test
    result        \* outputs of a function under test

engineVars == <<variant, processtz, now, ticks, started, latitude, longitude,
                localtz, hemisphere, today, utcdiff, isdst, drivers,
                sundrivers, notices, op, fault, written, sunreq, reads,
                snapshots, repeated>>

vars == <<engineVars, args, result>>

----------------------------------------------------------------------------
(* Bounds of the model *)

\* clock advances in one behaviour
MaxTicks == 2
\* quarter days of timestamps sampled for the days-since-epoch function
MaxQuarters == 9
\* years after 2000 sampled for the week-of-year function
MaxYearSpan == 28
\* clock advances seen by one handler between two of its clock reads
MaxDrifts == 1
\* days after 2021-03-13 on which the engine at the pole is started
MaxSolarDays == 8

----------------------------------------------------------------------------
(* Values *)

\* Python's None where a string is expected (the value of a call that
\* returns nothing)
None == "None"
\* an attribute that holds no datetime yet ('' or None)
NoDatetime == <<>>

\* str(n) / strftime('%-H'): a string holding the decimal digits of n
Str(n) == [str |-> n]
\* a Python int held by a driver
IntOf(n) == [int |-> n]
\* a / b in floating point, kept exact as a fraction
Quot(a, b) == [num |-> a, den |-> b]

----------------------------------------------------------------------------
(* The calendar (datetime, time, calendar modules) *)

DAY == 3600 * 24

\* the Julian rule: every fourth year
isleap_Julian(y) == y % 4 = 0

\* calendar.isleap
isleap(y) == (y % 4 = 0) /\ ((y % 100 # 0) \/ (y % 400 = 0))

\* day number of the civil date y-m-d
DaysFromCivil(y, m, d) ==
    LET yy  == IF m <= 2 THEN y - 1 ELSE y
        era == yy \div 400
        yoe == yy - era * 400
        mp  == (m + 9) % 12
        doy == (153 * mp + 2) \div 5 + d - 1
        doe == yoe * 365 + yoe \div 4 - yoe \div 100 + doy
    IN  era * 146097 + doe - 719468

\* civil date of a day number
CivilFromDays(z0) ==
    LET z   == z0 + 719468
        era == z \div 146097
        doe == z - era * 146097
        yoe == (doe - doe \div 1460 + doe \div 36524 - doe \div 146096) \div 365
        doy == doe - (365 * yoe + yoe \div 4 - yoe \div 100)
        mp  == (5 * doy + 2) \div 153
        d   == doy - (153 * mp + 2) \div 5 + 1
        m   == IF mp < 10 THEN mp + 3 ELSE mp - 9
        y   == yoe + era * 400 + (IF m <= 2 THEN 1 ELSE 0)
    IN  [year |-> y, month |-> m, day |-> d]

\* the flag getNodeUpdates derives from calendar.isleap(tm_year)
leapyear(year) == IF isleap(year) THEN 1 ELSE 0

\* number of days of month m
DaysInMonth(y, m) ==
    IF m = 2 THEN (IF isleap(y) THEN 29 ELSE 28)
    ELSE IF m \in {4, 6, 9, 11} THEN 30 ELSE 31

\* tm_wday of a day number: Monday is 0 (1970-01-01 was a Thursday)
Weekday(days) == (days + 3) % 7

\* day number of the n-th Sunday of month m of year y
NthSunday(y, m, n) ==
    LET first == DaysFromCivil(y, m, 1)
        toSun == (6 - Weekday(first)) % 7
    IN  first + toSun + 7 * (n - 1)

----------------------------------------------------------------------------
(* The zone database (pytz / the C library) *)

Zones == {"UTC", "America/Vancouver"}

\* standard offset of a zone, seconds east of UTC
ZoneStd(tz) == IF tz = "America/Vancouver" THEN -8 * 3600 ELSE 0
\* daylight offset of a zone, seconds east of UTC
ZoneAlt(tz) == IF tz = "America/Vancouver" THEN -7 * 3600 ELSE 0

\* daylight time is in force in zone tz at instant t (US rule since 2007:
\* second Sunday of March 02:00 standard to first Sunday of November
\* 02:00 daylight)
ZoneIsDst(tz, t) ==
    /\ tz = "America/Vancouver"
    /\ LET y     == CivilFromDays(t \div DAY).year
           start == NthSunday(y, 3, 2) * DAY + 2 * 3600 - ZoneStd(tz)
           end   == NthSunday(y, 11, 1) * DAY + 2 * 3600 - ZoneAlt(tz)
       IN  start <= t /\ t < end

\* utcoffset() of instant t in zone tz, seconds east of UTC
UTCOffset(tz, t) == IF ZoneIsDst(tz, t) THEN ZoneAlt(tz) ELSE ZoneStd(tz)

\* the fields of the civil date civ, day number days, at sod seconds of
\* the day
struct_time(civ, days, sod) ==
    [tm_year |-> civ.year, tm_mon |-> civ.month, tm_mday |-> civ.day,
     tm_hour |-> sod \div 3600, tm_min |-> (sod % 3600) \div 60,
     tm_sec |-> sod % 60, tm_wday |-> Weekday(days),
     tm_yday |-> days - DaysFromCivil(civ.year, 1, 1) + 1,
     date |-> days]

\* the fields of instant t shifted by off seconds (struct_time; tm_isdst is
\* added by the caller)
Fields(t, off) ==
    struct_time(CivilFromDays((t + off) \div DAY), (t + off) \div DAY,
                (t + off) % DAY)

\* timetuple() of instant t in zone tz, also time.localtime() for the
\* process zone
timetuple(tz, t) ==
    [f \in {"tm_isdst"} |-> IF ZoneIsDst(tz, t) THEN 1 ELSE 0]
        @@ Fields(t, UTCOffset(tz, t))

----------------------------------------------------------------------------
(* Pure functions of the two source files *)

\* a season() that moves only Spring to the other hemisphere's half
TimeData_season_FlipSpring(month, day, hemi) ==
    LET md == month * 100 + day
        s  == IF (md > 320) /\ (md < 621) THEN 0
              ELSE IF (md > 620) /\ (md < 923) THEN 1
              ELSE IF (md > 922) /\ (md < 1223) THEN 2
              ELSE 3
    IN  IF hemi # "north"
        THEN (IF s < 1 THEN s + 2 ELSE s - 2)
        ELSE s

\* timedata.py: TimeData.season(date, hemisphere)
TimeData_season(month, day, hemi) ==
    LET md == month * 100 + day
        s  == IF (md > 320) /\ (md < 621) THEN 0
              ELSE IF (md > 620) /\ (md < 923) THEN 1
              ELSE IF (md > 922) /\ (md < 1223) THEN 2
              ELSE 3
    IN  IF hemi # "north"
        THEN (IF s < 2 THEN s + 2 ELSE s - 2)
        ELSE s

\* a season() that takes no account of the leap flag
season_NoLeapShift(month, day, hemi, isleapyear) ==
    LET md == month * 100 + day
        s  == IF (md > 320) /\ (md < 621) THEN 0
              ELSE IF (md > 620) /\ (md < 923) THEN 1
              ELSE IF (md > 922) /\ (md < 1223) THEN 2
              ELSE 3
    IN  IF hemi # "north"
        THEN (IF s < 2 THEN s + 2 ELSE s - 2)
        ELSE s

\* a season() whose summer ends a day early
season_ShortSummer(month, day, hemi, isleapyear) ==
    LET dd == IF isleapyear # 0 THEN day + 1 ELSE day
        md == month * 100 + dd
        s  == IF (md > 320) /\ (md < 621) THEN 0
              ELSE IF (md > 620) /\ (md < 922) THEN 1
              ELSE IF (md > 922) /\ (md < 1223) THEN 2
              ELSE 3
    IN  IF hemi # "north"
        THEN (IF s < 2 THEN s + 2 ELSE s - 2)
        ELSE s

\* timedatapgc.py: season(date, hemisphere, isleapyear); isleapyear is the
\* 0/1 flag of the caller, tested for truth
season(month, day, hemi, isleapyear) ==
    LET dd == IF isleapyear # 0 THEN day + 1 ELSE day
        md == month * 100 + dd
        s  == IF (md > 320) /\ (md < 621) THEN 0
              ELSE IF (md > 620) /\ (md < 923) THEN 1
              ELSE IF (md > 922) /\ (md < 1223) THEN 2
              ELSE 3
    IN  IF hemi # "north"
        THEN (IF s < 2 THEN s + 2 ELSE s - 2)
        ELSE s

\* round(x, 0) of x = a / b for b > 0: nearest integer, ties to even
RoundHalfEven(a, b) ==
    LET q == a \div b
        r == a % b
    IN  IF 2 * r < b THEN q
        ELSE IF 2 * r > b THEN q + 1
        ELSE IF q % 2 = 0 THEN q ELSE q + 1

\* days since the epoch without round(): trunc(timestamp / (3600 * 24))
epochdays_Trunc(ts) == ts \div (3600 * 24)

\* trunc(round(timestamp / (3600 * 24), 0))
epochdays(ts) == RoundHalfEven(ts, 3600 * 24)

\* strftime('%W'): the week of the year with weeks that start on Monday
StrftimeW(yday, wday) == (yday - 1 + 7 - wday) \div 7

\* strftime('%U'): week of the year, weeks start on Sunday, the days before
\* the first Sunday are week 0
StrftimeU(yday, wday) == (yday - 1 + 7 - ((wday + 1) % 7)) \div 7

\* int(datetime.strftime(today, '%U')) + 1
weeknum(yday, wday) == StrftimeU(yday, wday) + 1

----------------------------------------------------------------------------
(* The solar libraries (astral in timedatapgc.py, suntime in timedata.py) *)

\* a string float() accepts
IsFloat(x) == x \notin {None, ""}

\* a latitude next to the pole
PolarLatitude == "89.9"

\* the sun does not rise, or does not set, on that date at that latitude:
\* next to the pole the night lasts until some days before the equinox of
\* 2021-03-20 and the day starts right after it.  astral's sun() raises
\* ValueError and suntime's get_local_sunrise_time raises SunTimeException
\* for such a date.
NoSolarEvent(lat, date) ==
    /\ lat = PolarLatitude
    /\ \/ date <= DaysFromCivil(2021, 3, 16)
       \/ date >= DaysFromCivil(2021, 3, 21)

\* sunrise and sunset of a civil date as UTC instants: a fixed table that
\* stands for the solar algorithm (near 48.6N 123.4W in March: sunrise about
\* 14:27Z, sunset about 02:15Z of the next UTC day), different for
\* neighbouring dates
SunUTC(date) ==
    [sunrise |-> date * DAY + 14 * 3600 + 27 * 60 - 120 * (date % 7),
     sunset  |-> date * DAY + DAY + 2 * 3600 + 15 * 60 + 90 * (date % 7)]

----------------------------------------------------------------------------
(* The engine object: self as a record, handlers as functions of it *)

ClockDrivers == {"GV0", "GV1", "GV2", "GV3", "GV4", "GV5", "GV6", "GV7",
                 "GV8", "GV9", "GV10", "GV11", "GV12", "GV13", "GV14", "GV15"}
SunDrivers == {"ST", "GV0", "GV1", "GV2", "GV3", "GV4", "GV5", "GV6"}

\* the name under which a driver of node 'sundata' is recorded in written
SunName(d) == <<"sundata", d>>
CtlName(d) == <<"timedata", d>>

\* Controller.setDriver for every driver of w, in the order of the code
setDriver(s, w) ==
    [s EXCEPT
       !.drivers = [d \in DOMAIN s.drivers |->
                      IF d \in DOMAIN w THEN w[d] ELSE s.drivers[d]],
       !.written = s.written \cup {CtlName(d) : d \in DOMAIN w}]

\* self.nodes['sundata'].setDriver for every driver of w
sundata_setDriver(s, w) ==
    [s EXCEPT
       !.sundrivers = [d \in DOMAIN s.sundrivers |->
                         IF d \in DOMAIN w THEN w[d] ELSE s.sundrivers[d]],
       !.written = s.written \cup {SunName(d) : d \in DOMAIN w}]

\* an exception leaves the handler
raise(s) == [s EXCEPT !.fault = TRUE]

\* time.timezone and time.altzone of the process zone (seconds west)
time_timezone(ptz) == -ZoneStd(ptz)
time_altzone(ptz) == -ZoneAlt(ptz)

\* timedata.py: TimeData.currenttz(dst)
currenttz(ptz, dst) ==
    IF dst = 0 THEN Quot(-time_timezone(ptz), 3600)
    ELSE IF dst = 1 THEN Quot(-time_altzone(ptz), 3600)
    ELSE IntOf(0)

\* a getNodeUpdates whose minutes count the days of the year from zero
TimeData_getNodeUpdates_values_WholeDays(today_, timestruct, seasonNow, ts, hemi, ptz) ==
    LET wk         == weeknum(today_.tm_yday, today_.tm_wday)
        oe         == timestruct.tm_mday % 2
        miy        == timestruct.tm_yday * 24 * 60
                        + timestruct.tm_hour * 60 + timestruct.tm_min
        localseason == TimeData_season(seasonNow.tm_mon, seasonNow.tm_mday,
                                       hemi)
        ed         == epochdays(ts)
        hoursytd   == (timestruct.tm_yday - 1) * 24 + timestruct.tm_hour
    IN  [GV0 |-> IntOf(timestruct.tm_hour), GV1 |-> IntOf(timestruct.tm_min),
         GV2 |-> IntOf(timestruct.tm_mday), GV3 |-> IntOf(timestruct.tm_mon),
         GV4 |-> IntOf(timestruct.tm_year), GV5 |-> IntOf(timestruct.tm_wday),
         GV6 |-> IntOf(wk), GV7 |-> IntOf(timestruct.tm_yday), GV8 |-> IntOf(oe),
         GV9 |-> IntOf(miy), GV10 |-> IntOf(localseason),
         GV11 |-> IntOf(leapyear(timestruct.tm_year)),
         GV12 |-> currenttz(ptz, timestruct.tm_isdst),
         GV13 |-> IntOf(timestruct.tm_isdst), GV15 |-> IntOf(ed),
         GV14 |-> IntOf(hoursytd)]

\* timedata.py: the values TimeData.getNodeUpdates passes to setDriver:
\* today is datetime.now(), timestruct is time.localtime(), seasonNow the
\* datetime.now() handed to season, ts the timestamp of epochdays
TimeData_getNodeUpdates_values(today_, timestruct, seasonNow, ts, hemi, ptz) ==
    LET wk         == weeknum(today_.tm_yday, today_.tm_wday)
        oe         == timestruct.tm_mday % 2
        miy        == (timestruct.tm_yday - 1) * 24 * 60
                        + timestruct.tm_hour * 60 + timestruct.tm_min
        localseason == TimeData_season(seasonNow.tm_mon, seasonNow.tm_mday,
                                       hemi)
        ed         == epochdays(ts)
        hoursytd   == (timestruct.tm_yday - 1) * 24 + timestruct.tm_hour
    IN  [GV0 |-> IntOf(timestruct.tm_hour), GV1 |-> IntOf(timestruct.tm_min),
         GV2 |-> IntOf(timestruct.tm_mday), GV3 |-> IntOf(timestruct.tm_mon),
         GV4 |-> IntOf(timestruct.tm_year), GV5 |-> IntOf(timestruct.tm_wday),
         GV6 |-> IntOf(wk), GV7 |-> IntOf(timestruct.tm_yday), GV8 |-> IntOf(oe),
         GV9 |-> IntOf(miy), GV10 |-> IntOf(localseason),
         GV11 |-> IntOf(leapyear(timestruct.tm_year)),
         GV12 |-> currenttz(ptz, timestruct.tm_isdst),
         GV13 |-> IntOf(timestruct.tm_isdst), GV15 |-> IntOf(ed),
         GV14 |-> IntOf(hoursytd)]

\* timedata.py: TimeData.getNodeUpdates; t[1..4] are the instants read by
\* datetime.now() (today), time.localtime(), datetime.now() (season) and
\* datetime.now() (epochdays)
TimeData_getNodeUpdates(s, t) ==
    IF s.hemisphere = "" THEN s
    ELSE setDriver(s,
           TimeData_getNodeUpdates_values(
             Fields(t[1], UTCOffset(s.processtz, t[1])),
             timetuple(s.processtz, t[2]),
             Fields(t[3], UTCOffset(s.processtz, t[3])),
             t[4], s.hemisphere, s.processtz))

\* timedatapgc.py: the driver values of getNodeUpdates: timestruct is
\* self.today.timetuple(), seasonNow the datetime.now() handed to season,
\* utcoffset the hours of self.utcdiff, ts the timestamp of epochdays
getNodeUpdates_drivers(timestruct, seasonNow, utcoffset, ts, hemi) ==
    LET wk         == weeknum(timestruct.tm_yday, timestruct.tm_wday)
        oe         == timestruct.tm_mday % 2
        miy        == (timestruct.tm_yday - 1) * 24 * 60
                        + timestruct.tm_hour * 60 + timestruct.tm_min
        localseason == season(seasonNow.tm_mon, seasonNow.tm_mday,
                              hemi, leapyear(timestruct.tm_year))
        ed         == epochdays(ts)
        hoursytd   == (timestruct.tm_yday - 1) * 24 + timestruct.tm_hour
    IN  [GV0 |-> IntOf(timestruct.tm_hour), GV1 |-> IntOf(timestruct.tm_min),
         GV2 |-> IntOf(timestruct.tm_mday), GV3 |-> IntOf(timestruct.tm_mon),
         GV4 |-> IntOf(timestruct.tm_year), GV5 |-> IntOf(timestruct.tm_wday),
         GV6 |-> IntOf(wk), GV7 |-> Str(timestruct.tm_yday), GV8 |-> IntOf(oe),
         GV9 |-> Str(miy), GV11 |-> IntOf(leapyear(timestruct.tm_year)),
         GV10 |-> IntOf(localseason),
         GV12 |-> utcoffset, GV13 |-> IntOf(timestruct.tm_isdst),
         GV15 |-> IntOf(ed), GV14 |-> IntOf(hoursytd)]

\* timedatapgc.py: the values TimeData.getNodeUpdates passes to setDriver;
\* t[1..4] are the instants read by datetime.now(tz=tzdata) (self.today),
\* datetime.now() (season), datetime.now(pytz.timezone(..)) (self.utcdiff)
\* and datetime.now() (epochdays)
getNodeUpdates_values(s, t) ==
    getNodeUpdates_drivers(timetuple(s.localtz, t[1]),
                           Fields(t[2], UTCOffset(s.processtz, t[2])),
                           Quot(UTCOffset(s.localtz, t[3]), 3600),
                           t[4], s.hemisphere)

\* timedatapgc.py: what getNodeUpdates assigns: self.today, self.utcdiff,
\* self.isdst (the tm_isdst it publishes as GV13) and the drivers w
getNodeUpdates_assign(s, t, w) ==
    setDriver([s EXCEPT !.today = <<t[1], s.localtz>>,
                        !.utcdiff = <<t[3], s.localtz>>,
                        !.isdst = timetuple(s.localtz, t[1]).tm_isdst],
              w)

\* a getNodeUpdates that publishes self.isdst before it assigns it
getNodeUpdates_StaleIsdst(s, t) ==
    IF s.hemisphere = "" THEN s
    ELSE IF s.localtz \notin Zones THEN raise(s)
    ELSE getNodeUpdates_assign(s, t,
           [getNodeUpdates_values(s, t) EXCEPT !.GV13 = IntOf(s.isdst)])

\* timedatapgc.py: TimeData.getNodeUpdates; pytz.timezone raises for a name
\* that is no zone
getNodeUpdates(s, t) ==
    IF s.hemisphere = "" THEN s
    ELSE IF s.localtz \notin Zones THEN raise(s)
    ELSE getNodeUpdates_assign(s, t, getNodeUpdates_values(s, t))

\* timedata.py: TimeData.getsunrise_sunset: the events of date sundt on the
\* process zone's wall clock (suntime converts each instant with tzlocal)
TimeData_getsunrise_sunset(s, sundt) ==
    IF ~IsFloat(s.latitude) \/ ~IsFloat(s.longitude)
    THEN [raised |-> TRUE]
    ELSE IF NoSolarEvent(s.latitude, sundt)
    THEN [raised |-> TRUE]
    ELSE LET ev == SunUTC(sundt)
         IN  [raised |-> FALSE,
              sun_sr |-> Fields(ev.sunrise, UTCOffset(s.processtz, ev.sunrise)),
              sun_ss |-> Fields(ev.sunset, UTCOffset(s.processtz, ev.sunset))]

\* timedatapgc.py: TimeData.utc_to_local: dt plus the offset self.utcdiff
\* carries
utc_to_local(s, dt) == Fields(dt, UTCOffset(s.utcdiff[2], s.utcdiff[1]))

\* timedatapgc.py: TimeData.getsunrise_sunset
getsunrise_sunset(s, sundt) ==
    IF ~IsFloat(s.latitude) \/ ~IsFloat(s.longitude)
    THEN [raised |-> TRUE]
    ELSE IF NoSolarEvent(s.latitude, sundt)
    THEN [raised |-> TRUE]
    ELSE IF s.utcdiff = NoDatetime
    THEN [raised |-> TRUE]
    ELSE LET ev == SunUTC(sundt)
         IN  [raised |-> FALSE,
              sun_sr |-> utc_to_local(s, ev.sunrise),
              sun_ss |-> utc_to_local(s, ev.sunset)]

\* the call of getsunrise_sunset of either file, recorded in sunreq
CallSun(v, s, sundt) ==
    [s |-> [s EXCEPT !.sunreq = Append(s.sunreq, sundt)],
     r |-> IF v = "timedata" THEN TimeData_getsunrise_sunset(s, sundt)
           ELSE getsunrise_sunset(s, sundt)]

\* the end of displaySunriseSunsetData_today: c holds the object and what
\* getsunrise_sunset returned
setSunDrivers_today(c) ==
    IF c.r.raised THEN raise(c.s)
    ELSE sundata_setDriver(c.s,
           [ST  |-> Str(c.r.sun_sr.tm_hour), GV0 |-> Str(c.r.sun_sr.tm_min),
            GV1 |-> Str(c.r.sun_ss.tm_hour), GV2 |-> Str(c.r.sun_ss.tm_min)])

\* the end of displaySunriseSunsetData_tomorrow
setSunDrivers_tomorrow(c) ==
    IF c.r.raised THEN raise(c.s)
    ELSE sundata_setDriver(c.s,
           [GV3 |-> Str(c.r.sun_sr.tm_hour), GV4 |-> Str(c.r.sun_sr.tm_min),
            GV5 |-> Str(c.r.sun_ss.tm_hour), GV6 |-> Str(c.r.sun_ss.tm_min)])

\* datetime(today.year, today.month, today.day) + timedelta(days=1)
tomorrow(today_) ==
    DaysFromCivil(today_.tm_year, today_.tm_mon, today_.tm_mday) + 1

\* displaySunriseSunsetData_today of either file; ta is the instant read by
\* datetime.now() in timedata.py
displaySunriseSunsetData_today(v, s, ta) ==
    IF v # "timedata" /\ s.today = NoDatetime THEN raise(s)
    ELSE
    setSunDrivers_today(
      CallSun(v, s,
        IF v = "timedata"
        THEN Fields(ta, UTCOffset(s.processtz, ta)).date
        ELSE Fields(s.today[1], UTCOffset(s.today[2], s.today[1])).date))

\* displaySunriseSunsetData_tomorrow of either file; tb is the instant read
\* by datetime.now() in timedata.py
displaySunriseSunsetData_tomorrow(v, s, tb) ==
    IF v # "timedata" /\ s.today = NoDatetime THEN raise(s)
    ELSE
    setSunDrivers_tomorrow(
      CallSun(v, s,
        tomorrow(IF v = "timedata"
                 THEN Fields(tb, UTCOffset(s.processtz, tb))
                 ELSE Fields(s.today[1], UTCOffset(s.today[2], s.today[1])))))

----------------------------------------------------------------------------
(* Configuration *)

\* a key that polyConfig does not hold
Absent == "<absent>"

\* self.loglevelsetting of __init__
loglevelsetting == 10

\* the complete configuration of the documentation
FullConfig ==
    [Latitude |-> "48.5927", Longitude |-> "-123.4218",
     Timezone |-> "America/Vancouver", Hemisphere |-> Absent]

\* a Timezone the user typed that the zone database does not hold
UnknownZone == "America/Vancouvr"

\* the polyConfig contents a handler may find: the complete one and those
\* with one value empty or changed (the host keeps the three keys once the
\* node server has run)
ConfigInputs ==
    {FullConfig,
     [FullConfig EXCEPT !.Hemisphere = "south"],
     [FullConfig EXCEPT !.Hemisphere = ""],
     [FullConfig EXCEPT !.Latitude = ""],
     [FullConfig EXCEPT !.Timezone = ""],
     [FullConfig EXCEPT !.Timezone = UnknownZone]}

\* timedata.py: TimeData.set_configuration
TimeData_set_configuration(s, config) ==
    [s EXCEPT
       !.latitude  = IF config.Latitude # Absent THEN config.Latitude ELSE "",
       !.longitude = IF config.Longitude # Absent THEN config.Longitude ELSE ""]

\* timedatapgc.py: TimeData.set_configuration; addCustomParam returns
\* nothing, so a missing key leaves None in the attribute
set_configuration(s, config) ==
    [s EXCEPT
       !.latitude  = IF config.Latitude # Absent THEN config.Latitude ELSE None,
       !.longitude = IF config.Longitude # Absent THEN config.Longitude ELSE None,
       !.localtz   = IF config.Timezone # Absent THEN config.Timezone ELSE None]

\* check_params of either file
check_params(v, s, config) ==
    LET s1 == IF v = "timedata" THEN TimeData_set_configuration(s, config)
              ELSE set_configuration(s, config)
        s2 == IF config.Hemisphere # Absent
              THEN [s1 EXCEPT !.hemisphere = config.Hemisphere]
              ELSE s1
        s3 == setDriver(s2, [GV16 |-> IntOf(loglevelsetting)])
        missing == {k \in {"Latitude", "Longitude"} \cup
                          (IF v = "timedata" THEN {} ELSE {"Timezone"}) :
                      IF k = "Latitude" THEN s3.latitude = ""
                      ELSE IF k = "Longitude" THEN s3.longitude = ""
                      ELSE s3.localtz = ""}
    IN  [s3 EXCEPT !.notices = missing]

----------------------------------------------------------------------------
(* The handlers the host calls *)

\* shortPoll of either file
shortPoll(v, s, t) ==
    IF v = "timedata" THEN TimeData_getNodeUpdates(s, t)
    ELSE IF s.latitude = "" \/ s.longitude = "" \/ s.localtz = "" THEN s
    ELSE getNodeUpdates(s, t)

\* the statement that follows a statement which left the object as s:
\* skipped when that one raised
then_today(v, s, ta) ==
    IF s.fault THEN s ELSE displaySunriseSunsetData_today(v, s, ta)
then_tomorrow(v, s, tb) ==
    IF s.fault THEN s ELSE displaySunriseSunsetData_tomorrow(v, s, tb)

\* longPoll of either file; t[1], t[2] are the instants of the two
\* display functions
longPoll(v, s, t) ==
    IF s.latitude = "" \/ s.longitude = "" THEN s
    ELSE then_tomorrow(v, displaySunriseSunsetData_today(v, s, t[1]), t[2])

\* start: os.environ['TZ'] = self.localtz, with the object as check_params
\* left it
set_environ_TZ(v, s, tzset) ==
    IF v # "timedata" /\ tzset /\ s.localtz \in Zones
    THEN [s EXCEPT !.processtz = s.localtz]
    ELSE s

\* start after check_params: the guard and the three updates
start_configured(v, s, tzset, t) ==
    IF (IF v = "timedata"
        THEN s.latitude = "" \/ s.longitude = ""
        ELSE s.latitude = "" \/ s.longitude = "" \/ s.localtz = "")
    THEN s
    ELSE IF v # "timedata" /\ s.localtz = None THEN raise(s)
    ELSE then_tomorrow(v,
           then_today(v,
             IF v = "timedata"
             THEN TimeData_getNodeUpdates(set_environ_TZ(v, s, tzset), t)
             ELSE getNodeUpdates(set_environ_TZ(v, s, tzset), t),
             t[5]),
           t[6])

\* start of either file; tzset tells whether the C library re-reads the TZ
\* variable that timedatapgc.py sets (no time.tzset() follows the
\* assignment); t[1..4] as in getNodeUpdates, t[5], t[6] as in longPoll
start(v, s, config, tzset, t) ==
    start_configured(v, check_params(v, s, config), tzset, t)

\* query of either file
query(v, s, config) == check_params(v, s, config)

----------------------------------------------------------------------------
(* The clock *)

\* 2021-03-13 23:59:00 in America/Vancouver, a minute before the day on
\* which daylight time starts at 10:00Z
StartInstants == {DaysFromCivil(2021, 3, 14) * DAY + 7 * 3600 + 59 * 60}

\* what the clock advances between two handlers
Steps == {60, 2 * 3600}
\* what the clock may advance between two clock reads of a handler
DriftSteps == {0, 60}

\* the clock advances before the k-th of n clock reads (0: it stands still)
Gaps(n) ==
    {g \in [2..n -> DriftSteps] :
        Cardinality({i \in 2..n : g[i] # 0}) <= MaxDrifts
        /\ Cardinality({i \in 2..n : g[i] # 0}) <= MaxTicks - ticks}

RECURSIVE ReadAt(_, _)
\* the instant of the k-th clock read
ReadAt(g, k) == IF k <= 1 THEN now ELSE ReadAt(g, k - 1) + g[k]

\* the instants of the n clock reads of a handler
Reads(g, n) == [k \in 1..n |-> ReadAt(g, k)]

----------------------------------------------------------------------------
(* The state machine *)

\* the engine object at the entry of a handler
Self ==
    [latitude |-> latitude, longitude |-> longitude, localtz |-> localtz,
     hemisphere |-> hemisphere, today |-> today, utcdiff |-> utcdiff,
     isdst |-> isdst, drivers |-> drivers, sundrivers |-> sundrivers,
     notices |-> notices, processtz |-> processtz,
     fault |-> FALSE, written |-> {}, sunreq |-> <<>>]

\* the clock snapshot a refresh published: the configuration it ran with
\* and the clock fields it set
SnapshotOf(s) ==
    [cfg   |-> <<s.latitude, s.longitude, s.localtz, s.hemisphere, s.processtz>>,
     clock |-> [d \in ClockDrivers |-> s.drivers[d]]]

\* the handler s returned from has run getNodeUpdates to its end
Refreshed(s) ==
    ~s.fault /\ {CtlName(d) : d \in ClockDrivers} \subseteq s.written

\* the handler returns (or raises) with the object as s; t holds the
\* instants of its clock reads
Commit(s, name, t) ==
    LET tEnd == t[Len(t)]
    IN
    /\ latitude' = s.latitude
    /\ longitude' = s.longitude
    /\ localtz' = s.localtz
    /\ hemisphere' = s.hemisphere
    /\ today' = s.today
    /\ utcdiff' = s.utcdiff
    /\ isdst' = s.isdst
    /\ drivers' = s.drivers
    /\ sundrivers' = s.sundrivers
    /\ notices' = s.notices
    /\ processtz' = s.processtz
    /\ now' = tEnd
    /\ ticks' = ticks + Cardinality({i \in 2..Len(t) : t[i] # t[i - 1]})
    /\ op' = name
    /\ fault' = s.fault
    /\ written' = s.written
    /\ sunreq' = s.sunreq
    /\ reads' = IF Refreshed(s) THEN SubSeq(t, 1, 4) ELSE <<>>
    /\ snapshots' =
         (IF tEnd # now THEN {} ELSE snapshots) \cup
         (IF tEnd = now /\ Refreshed(s) THEN {SnapshotOf(s)} ELSE {})
    /\ repeated' = (/\ tEnd = now
                    /\ Refreshed(s)
                    /\ \E e \in snapshots : e.cfg = SnapshotOf(s).cfg)
    /\ started' = (started \/ name = "start")
    /\ UNCHANGED <<variant, args, result>>

\* the process zone the host runs in: the site's zone for timedata.py,
\* which has no zone of its own, UTC for the cloud variant timedatapgc.py
HostZone(v) == IF v = "timedata" THEN "America/Vancouver" ELSE "UTC"

\* the object after __init__, before the host has called anything
Constructed ==
    /\ ticks = 0
    /\ started = FALSE
    /\ latitude = ""
    /\ longitude = ""
    /\ localtz = ""
    /\ hemisphere = "north"
    /\ today = NoDatetime
    /\ utcdiff = NoDatetime
    /\ isdst = 0
    /\ drivers = [d \in ClockDrivers \cup {"GV16", "ST"} |->
                    IF d = "ST" THEN IntOf(1) ELSE IntOf(0)]
    /\ sundrivers = [d \in SunDrivers |-> IntOf(0)]
    /\ notices = {}
    /\ op = "init"
    /\ fault = FALSE
    /\ written = {}
    /\ sunreq = <<>>
    /\ reads = <<>>
    /\ snapshots = {}
    /\ repeated = FALSE

Init ==
    /\ variant \in {"timedata", "timedatapgc"}
    /\ processtz = HostZone(variant)
    /\ now \in StartInstants
    /\ Constructed
    /\ args = <<>>
    /\ result = <<>>

\* the host calls start() once, when the connection is up, with one of
\* the configurations configs
StartWith(configs) ==
    /\ ~started
    /\ \E config \in configs, g \in Gaps(6),
          tzset \in (IF variant = "timedata" THEN {FALSE} ELSE BOOLEAN) :
        LET t == Reads(g, 6)
        IN  Commit(start(variant, Self, config, tzset, t), "start", t)

Start == StartWith(ConfigInputs)

ShortPoll ==
    \E g \in Gaps(4) :
        LET t == Reads(g, 4)
        IN  Commit(shortPoll(variant, Self, t), "shortPoll", t)

LongPoll ==
    \E g \in Gaps(2) :
        LET t == Reads(g, 2)
        IN  Commit(longPoll(variant, Self, t), "longPoll", t)

Query ==
    \E config \in ConfigInputs :
        Commit(query(variant, Self, config), "query", <<now>>)

\* the clock advances between two handlers
Advance ==
    /\ ticks < MaxTicks
    /\ \E d \in Steps : now' = now + d
    /\ ticks' = ticks + 1
    /\ op' = "advance"
    /\ fault' = FALSE
    /\ written' = {}
    /\ sunreq' = <<>>
    /\ reads' = <<>>
    /\ snapshots' = {}
    /\ repeated' = FALSE
    /\ UNCHANGED <<variant, processtz, started, latitude, longitude, localtz,
                   hemisphere, today, utcdiff, isdst, drivers, sundrivers,
                   notices, args, result>>

Next == Start \/ ShortPoll \/ LongPoll \/ Query \/ Advance

Spec == Init /\ [][Next]_vars

----------------------------------------------------------------------------
(* The engine at a site next to the pole, on the days around the equinox *)

\* the complete configuration, at mid latitude or next to the pole
SolarConfigs ==
    {FullConfig, [FullConfig EXCEPT !.Latitude = PolarLatitude]}

\* 23:59 local of 2021-03-13 and of the days that follow, up to
\* MaxSolarDays days later
SolarInstants ==
    {t + k * DAY : t \in StartInstants, k \in 0..MaxSolarDays}

InitSolar ==
    /\ variant \in {"timedata", "timedatapgc"}
    /\ processtz = HostZone(variant)
    /\ now \in SolarInstants
    /\ Constructed
    /\ args = <<>>
    /\ result = <<>>

StartSolar == StartWith(SolarConfigs)

NextSolar == StartSolar \/ ShortPoll \/ LongPoll

SpecSolar == InitSolar /\ [][NextSolar]_vars

----------------------------------------------------------------------------
(* The pure functions applied to sampled inputs.  The engine object stays  *)
(* as constructed; args holds the inputs and result the values returned.   *)

\* the engine is not running
Idle ==
    /\ variant = "timedatapgc"
    /\ processtz = HostZone(variant)
    /\ now = 0
    /\ Constructed

Hemispheres == {"north", "south"}

\* every (month, day) of the calendar, February 29 included, with the leap
\* flag getNodeUpdates passes
InitSeason ==
    /\ Idle
    /\ args \in {a \in [month : 1..12, day : 1..31, isleapyear : {0, 1}] :
                   a.day <= DaysInMonth(2000, a.month)}
    /\ result = <<>>

\* both season functions are called for both hemispheres
CallSeason ==
    /\ result = <<>>
    /\ result' = [timedata    |-> [h \in Hemispheres |->
                     TimeData_season(args.month, args.day, h)],
                  timedatapgc |-> [h \in Hemispheres |->
                     season(args.month, args.day, h, args.isleapyear)]]
    /\ UNCHANGED <<engineVars, args>>

SpecSeason == InitSeason /\ [][CallSeason]_vars

\* timestamps around every quarter day up to MaxQuarters quarters
TimestampSamples ==
    {q * (DAY \div 4) + e : q \in 0..MaxQuarters, e \in {-1, 0, 1}}

\* two timestamps, the second not before the first
InitEpoch ==
    /\ Idle
    /\ args \in {a \in [first : TimestampSamples, second : TimestampSamples] :
                   a.first <= a.second}
    /\ result = <<>>

\* epochdays is computed for both
CallEpochdays ==
    /\ result = <<>>
    /\ result' = [first  |-> epochdays(args.first),
                  second |-> epochdays(args.second)]
    /\ UNCHANGED <<engineVars, args>>

SpecEpoch == InitEpoch /\ [][CallEpochdays]_vars

\* every date of the years 2000 .. 2000 + MaxYearSpan
InitWeek ==
    /\ Idle
    /\ args \in {a \in [year : 2000..(2000 + MaxYearSpan), month : 1..12,
                        day : 1..31] :
                   a.day <= DaysInMonth(a.year, a.month)}
    /\ result = <<>>

\* the week number of the date, from its timetuple as in getNodeUpdates
CallWeeknum ==
    /\ result = <<>>
    /\ LET ts == Fields(DaysFromCivil(args.year, args.month, args.day) * DAY, 0)
       IN  result' = [weeknum |-> weeknum(ts.tm_yday, ts.tm_wday),
                      tm_wday |-> ts.tm_wday, tm_yday |-> ts.tm_yday]
    /\ UNCHANGED <<engineVars, args>>

SpecWeek == InitWeek /\ [][CallWeeknum]_vars

\* the years of the calendar samples: those whose instants a signed 32-bit
\* count of seconds holds
Years == 1902..2037
\* the first day, the leap day, the day after it and the last day of a year
YearDates == {<<1, 1>>, <<2, 29>>, <<3, 1>>, <<12, 31>>}
\* the first minute, a minute of the afternoon and the last minute of a day
DayTimes == {<<0, 0>>, <<12, 30>>, <<23, 59>>}

\* an instant (UTC) of the calendar samples and the zone of the site
InitCalendar ==
    /\ Idle
    /\ args \in {a \in [year : Years, date : YearDates, time : DayTimes,
                        tz : Zones] :
                   a.date[2] <= DaysInMonth(a.year, a.date[1])}
    /\ result = <<>>

\* the object once the configuration is complete, in zone tz
Configured(v, tz) ==
    [Self EXCEPT !.latitude = FullConfig.Latitude,
                 !.longitude = FullConfig.Longitude,
                 !.localtz = IF v = "timedata" THEN "" ELSE tz,
                 !.processtz = IF v = "timedata" THEN tz ELSE HostZone(v)]

\* getNodeUpdates of both files runs with the clock standing at the
\* sampled instant; result holds the drivers each leaves
CallGetNodeUpdates ==
    /\ result = <<>>
    /\ LET at == DaysFromCivil(args.year, args.date[1], args.date[2]) * DAY
                   + args.time[1] * 3600 + args.time[2] * 60
           t  == <<at, at, at, at>>
       IN  result' =
             [timedata    |-> TimeData_getNodeUpdates(
                                Configured("timedata", args.tz), t).drivers,
              timedatapgc |-> getNodeUpdates(
                                Configured("timedatapgc", args.tz), t).drivers]
    /\ UNCHANGED <<engineVars, args>>

SpecCalendar == InitCalendar /\ [][CallGetNodeUpdates]_vars

\* the years whose leap flag is computed
LeapYears == 1600..2399

InitLeap ==
    /\ Idle
    /\ args \in [tm_year : LeapYears]
    /\ result = <<>>

\* the leap flag of getNodeUpdates for a timestruct of that year
CallLeapyear ==
    /\ result = <<>>
    /\ result' = [leapyear |-> leapyear(args.tm_year)]
    /\ UNCHANGED <<engineVars, args>>

SpecLeap == InitLeap /\ [][CallLeapyear]_vars

----------------------------------------------------------------------------
(* Claims *)

\* the northern classification of md = month * 100 + day
NorthOfMd(code, md) ==
    /\ (code = 0) <=> (320 < md /\ md < 621)
    /\ (code = 1) <=> (620 < md /\ md < 923)
    /\ (code = 2) <=> (922 < md /\ md < 1223)
    /\ (code = 3) <=> ~(320 < md /\ md < 1223)

\* C1: in the north, season() of timedata.py, and season() of
\* timedatapgc.py called with a false leap flag, returns 0 iff
\* 320 < md < 621, 1 iff 620 < md < 923, 2 iff 922 < md < 1223 and 3
\* otherwise, md = month * 100 + day; June 21 is Summer.
C1_NorthernSeasons ==
    result # <<>> =>
        LET md == args.month * 100 + args.day
        IN  /\ NorthOfMd(result.timedata["north"], md)
            /\ args.isleapyear = 0 => NorthOfMd(result.timedatapgc["north"], md)
            /\ (args.isleapyear = 0 /\ args.month = 6 /\ args.day = 21)
                 => (result.timedata["north"] = 1
                     /\ result.timedatapgc["north"] = 1)

C1_Witness ==
    /\ result # <<>>
    /\ args = [month |-> 6, day |-> 21, isleapyear |-> 0]
    /\ result.timedatapgc["north"] = 1

\* C2: for every (month, day, isleapyear) the code for a hemisphere other
\* than 'north' and the code for 'north' are two apart modulo 4, and every
\* code is one of 0, 1, 2, 3.
C2_HemispheresTwoApart ==
    result # <<>> =>
        \A f \in DOMAIN result :
            /\ result[f]["north"] \in 0..3
            /\ result[f]["south"] \in 0..3
            /\ result[f]["south"] = (result[f]["north"] + 2) % 4

C2_Witness ==
    /\ result # <<>>
    /\ args.isleapyear = 1
    /\ result.timedatapgc["north"] = 3
    /\ result.timedatapgc["south"] = 1
    /\ result.timedata["north"] = 2
    /\ result.timedata["south"] = 0

\* floor(ts / 86400)
FloorDays(ts) == ts \div DAY

\* e is a whole number of days nearest to ts seconds
NearestDay(e, ts) ==
    LET diff == ts - e * DAY
    IN  2 * (IF diff < 0 THEN -diff ELSE diff) <= DAY

\* C9: GV15 is the timestamp divided by 86400 rounded to the nearest whole
\* day: 0 at 1970-01-01T00:00:00Z, 1 at 1970-01-02T00:00:00Z, non-decreasing
\* in the timestamp, and never more than 1 away from floor(timestamp/86400).
C9_DaysSinceEpoch ==
    result # <<>> =>
        /\ \A k \in {"first", "second"} :
              /\ NearestDay(result[k], args[k])
              /\ args[k] = 0 => result[k] = 0
              /\ args[k] = DAY => result[k] = 1
              /\ result[k] - FloorDays(args[k]) \in {-1, 0, 1}
        /\ result.first <= result.second

C9_Witness ==
    /\ result # <<>>
    /\ args.first = 0 /\ result.first = 0
    /\ args.second = DAY /\ result.second = 1

\* the Sundays of the year up to and including its n-th day, the year's
\* first day being the weekday wday1 (Monday is 0)
SundaysThrough(n, wday1) ==
    Cardinality({k \in 1..n : (wday1 + k - 1) % 7 = 6})

\* C10: GV6 is the Sunday-based week of the year (%U: the days before the
\* first Sunday are week 0) plus 1: it lies in 1..54, January 1 of a year
\* that starts on a Sunday gives 2, of a year that starts on a Monday 1.
C10_WeekOfYear ==
    result # <<>> =>
        LET wday1 == Weekday(DaysFromCivil(args.year, 1, 1))
        IN  /\ result.weeknum = SundaysThrough(result.tm_yday, wday1) + 1
            /\ result.weeknum \in 1..54
            /\ (args.month = 1 /\ args.day = 1 /\ wday1 = 6)
                 => result.weeknum = 2
            /\ (args.month = 1 /\ args.day = 1 /\ wday1 = 0)
                 => result.weeknum = 1

C10_Witness ==
    /\ result # <<>>
    /\ args = [year |-> 2017, month |-> 1, day |-> 1]
    /\ result.tm_wday = 6
    /\ result.weeknum = 2

\* the clock fields and the sun drivers, as named in written
MetricDrivers ==
    {CtlName(d) : d \in ClockDrivers} \cup {SunName(d) : d \in SunDrivers}

\* C3: within one longPoll the date of tomorrow's sunrise/sunset is the
\* date of today's sunrise/sunset plus one calendar day, whatever the time
\* of day, also when the clock passes midnight between the two.
C3_TomorrowIsTodayPlusOne ==
    (op = "longPoll" /\ Len(sunreq) = 2) => sunreq[2] = sunreq[1] + 1

\* a value that is absent
IsAbsent(x) == x \in {"", None}

\* C4: while latitude or longitude (or the timezone in timedatapgc.py) is
\* absent, neither shortPoll nor longPoll nor start sets a metric driver.
C4_NoMetricsWhenUnconfigured ==
    (/\ op \in {"start", "shortPoll", "longPoll"}
     /\ \/ IsAbsent(latitude)
        \/ IsAbsent(longitude)
        \/ (variant = "timedatapgc" /\ IsAbsent(localtz)))
    => written \cap MetricDrivers = {}

\* C5: whatever the configuration lacks and whatever the order of start,
\* shortPoll and longPoll, no call ends in an unhandled fault.
C5_NoUnhandledFault ==
    op \in {"start", "shortPoll", "longPoll"} => ~fault

\* C6: two clock refreshes run at the same frozen instant with the same
\* configuration publish the same value for every clock field, whatever
\* earlier refreshes left behind.
C6_SameInstantSameSnapshot ==
    \A a, b \in snapshots : a.cfg = b.cfg => a.clock = b.clock

\* a refresh repeated at an instant of daylight time after a refresh with
\* another configuration had set the drivers
C6_Witness ==
    /\ repeated
    /\ op = "shortPoll"
    /\ Cardinality(snapshots) >= 2
    /\ drivers["GV13"] = IntOf(1)

\* the hour and minute strings of instant t on the wall clock of zone tz
LocalHM(tz, t) ==
    LET f == Fields(t, UTCOffset(tz, t))
    IN  <<Str(f.tm_hour), Str(f.tm_min)>>

\* the zone the engine resolves local time in
EngineZone == IF variant = "timedata" THEN processtz ELSE localtz

\* C7: the sunrise/sunset times published for a date are the UTC instants
\* of the events shifted by the zone's offset in force at those events of
\* that date; across a DST transition between today and tomorrow,
\* tomorrow's times use tomorrow's offset.
C7_SunTimesUseOffsetOfDate ==
    (/\ op \in {"start", "longPoll"}
     /\ ~fault
     /\ Len(sunreq) = 2
     /\ EngineZone \in Zones)
    => LET d == sundrivers
           e1 == SunUTC(sunreq[1])
           e2 == SunUTC(sunreq[2])
       IN  /\ <<d["ST"], d["GV0"]>> = LocalHM(EngineZone, e1.sunrise)
           /\ <<d["GV1"], d["GV2"]>> = LocalHM(EngineZone, e1.sunset)
           /\ <<d["GV3"], d["GV4"]>> = LocalHM(EngineZone, e2.sunrise)
           /\ <<d["GV5"], d["GV6"]>> = LocalHM(EngineZone, e2.sunset)

\* C8: at every clock refresh GV12 is the zone's offset in force at the
\* instant sampled for it, and GV13 is 1 exactly when that offset is the
\* zone's daylight offset (so the published offset changes at the first
\* refresh at or after the transition and at no other).
C8_OffsetAndDstFlag ==
    (op \in {"start", "shortPoll"} /\ reads # <<>>)
    => LET at == IF variant = "timedata" THEN reads[2] ELSE reads[3]
       IN  /\ drivers["GV12"] = Quot(UTCOffset(EngineZone, at), 3600)
           /\ (drivers["GV13"] = IntOf(1)) <=> ZoneIsDst(EngineZone, at)

\* the number a driver of file f holds in result
DriverNum(f, d) ==
    IF f = "timedatapgc" /\ d \in {"GV7", "GV9"}
    THEN result[f][d].str
    ELSE result[f][d].int

\* C11: GV9 is (dayOfYear - 1) * 1440 + hour * 60 + minute and GV14 is
\* (dayOfYear - 1) * 24 + hour, so GV9 div 60 = GV14, GV9 mod 60 = GV1 and
\* 0 <= GV9 < 366 * 1440, in both files and for every calendar sample.
C11_MinutesAndHoursOfYear ==
    result # <<>> =>
        \A f \in DOMAIN result :
            LET yday == DriverNum(f, "GV7")
                miy  == DriverNum(f, "GV9")
                hytd == DriverNum(f, "GV14")
                hour == DriverNum(f, "GV0")
                min  == DriverNum(f, "GV1")
            IN  /\ miy = (yday - 1) * 1440 + hour * 60 + min
                /\ hytd = (yday - 1) * 24 + hour
                /\ miy \div 60 = hytd
                /\ miy % 60 = min
                /\ 0 <= miy /\ miy < 366 * 1440

\* the last minute of a leap year
C11_Witness ==
    /\ result # <<>>
    /\ args = [year |-> 2000, date |-> <<12, 31>>, time |-> <<23, 59>>,
               tz |-> "UTC"]
    /\ result.timedata["GV9"] = IntOf(366 * 1440 - 1)
    /\ result.timedatapgc["GV9"] = Str(366 * 1440 - 1)
    /\ result.timedata["GV14"] = IntOf(366 * 24 - 1)

\* C12: GV11 is 1 exactly when the sampled year is divisible by 4 and not
\* by 100, or divisible by 400, and 0 otherwise, for the years 1600 to
\* 2399; 1900 gives 0 and 2000 gives 1.
C12_LeapYearFlag ==
    result # <<>> =>
        LET y == args.tm_year
        IN  /\ result.leapyear \in {0, 1}
            /\ (result.leapyear = 1) <=>
                  ((y % 4 = 0 /\ y % 100 # 0) \/ y % 400 = 0)
            /\ y = 1900 => result.leapyear = 0
            /\ y = 2000 => result.leapyear = 1

\* a century year that is no leap year
C12_Witness ==
    /\ result # <<>>
    /\ args.tm_year = 1900
    /\ result.leapyear = 0

\* C13: in timedatapgc.py, with latitude and longitude set and a Timezone
\* that is not empty and not a zone, a clock or solar refresh does not
\* raise, the host holds a notice about the Timezone, and the refresh sets
\* no metric driver.
C13_InvalidTimezoneReported ==
    (/\ variant = "timedatapgc"
     /\ op \in {"start", "shortPoll", "longPoll"}
     /\ IsFloat(latitude) /\ IsFloat(longitude)
     /\ ~IsAbsent(localtz) /\ localtz \notin Zones)
    => /\ ~fault
       /\ "Timezone" \in notices
       /\ written \cap MetricDrivers = {}

\* the sun does not rise or does not set on a date the last handler asked
\* the solar library about
AskedNoSolarEvent ==
    \E i \in 1..Len(sunreq) : NoSolarEvent(latitude, sunreq[i])

\* C14: a solar refresh for a date and latitude at which the sun does not
\* rise or does not set never ends in an unhandled fault.
C14_PolarDayNoFault ==
    (op \in {"start", "longPoll"} /\ AskedNoSolarEvent) => ~fault

\* the sun drivers the last handler set
SunWritten == {d \in SunDrivers : SunName(d) \in written}
\* the clock drivers the last handler set
ClockWritten == {d \in ClockDrivers : CtlName(d) \in written}

\* C15: after a longPoll, completed or stopped by a failure of the today or
\* the tomorrow computation, either all eight sun drivers were set by it or
\* none was; a handler that set any clock driver set all of GV0..GV15.
C15_NeverPartiallyMutated ==
    /\ op = "longPoll" => SunWritten \in {{}, SunDrivers}
    /\ ClockWritten \in {{}, ClockDrivers}

\* the calendar date of instant t on the wall clock of zone tz
DateIn(tz, t) == Fields(t, UTCOffset(tz, t)).date

\* C16: the date a longPoll uses as today is the calendar date, in the
\* engine's zone, of an instant at which that longPoll runs (between its
\* call and its return), whatever shortPoll or getNodeUpdates ran before
\* it and whenever.
C16_LongPollUsesItsOwnDate ==
    [][(op' = "longPoll" /\ Len(sunreq') >= 1 /\ EngineZone' \in Zones)
         => sunreq'[1] \in {DateIn(EngineZone', now), DateIn(EngineZone', now')}
      ]_vars

\* the season code of file v for the date of the fields f
SeasonOfFields(v, f, hemi) ==
    IF v = "timedata" THEN TimeData_season(f.tm_mon, f.tm_mday, hemi)
    ELSE season(f.tm_mon, f.tm_mday, hemi, leapyear(f.tm_year))

\* C17: the clock fields one getNodeUpdates publishes come from a single
\* instant in a single zone: the season (GV10), the days since the epoch
\* (GV15) and the UTC offset (GV12) are those of the sample that gave the
\* hour, minute, day and month, also when the clock advances during the
\* call or the process zone is not the configured zone.
C17_SnapshotOfOneInstant ==
    (op \in {"start", "shortPoll"} /\ reads # <<>>)
    => LET at == IF variant = "timedata" THEN reads[2] ELSE reads[1]
           f  == timetuple(EngineZone, at)
       IN  /\ <<drivers["GV0"], drivers["GV1"], drivers["GV2"], drivers["GV3"]>>
                = <<IntOf(f.tm_hour), IntOf(f.tm_min), IntOf(f.tm_mday),
                    IntOf(f.tm_mon)>>
           /\ drivers["GV10"] = IntOf(SeasonOfFields(variant, f, hemisphere))
           /\ drivers["GV15"] = IntOf(epochdays(at))
           /\ drivers["GV12"] = Quot(UTCOffset(EngineZone, at), 3600)

\* the dates on which the leap flag moves a date across a threshold
LeapShiftDates == {<<3, 20>>, <<6, 20>>, <<9, 22>>, <<12, 22>>}

\* C18: for every (month, day, hemisphere) season() of timedatapgc.py
\* with a false leap flag returns what season() of timedata.py returns;
\* with a true leap flag the two differ exactly on March 20, June 20,
\* September 22 and December 22.
C18_SeasonsDifferByLeapShift ==
    result # <<>> =>
        \A h \in Hemispheres :
            (result.timedatapgc[h] # result.timedata[h])
              <=> (args.isleapyear = 1
                   /\ <<args.month, args.day>> \in LeapShiftDates)

\* March 20 of a leap year: Spring in timedatapgc.py, Winter in timedata.py
C18_Witness ==
    /\ result # <<>>
    /\ args = [month |-> 3, day |-> 20, isleapyear |-> 1]
    /\ result.timedatapgc["north"] = 0
    /\ result.timedata["north"] = 3
    /\ result.timedatapgc["south"] = 2

====
